---- MODULE Spec2Model ----
(***************************************************************************)
(* Model of bytecode-analysis/eip1153_scanner.py: the EIP-1153 bytecode    *)
(* scanner (class EIP1153Scanner and the command line entry point main).   *)
(*                                                                         *)
(* Text (hex strings, addresses, file lines, argv words) is a sequence of  *)
(* one-character strings, so that startswith, slicing, strip and count are *)
(* computed on characters as Python computes them.  A byte is 0..255.      *)
(* Python's 0-based argv[k] is argv[k+1] here.                             *)
(***************************************************************************)
EXTENDS Integers, Sequences, FiniteSets

VARIABLES
    pc,          \* position of main: start, dispatch, batch, summary, export, done, exit, raised
    argv,        \* sys.argv
    input_file,  \* the lines of the batch input file, once read
    addresses,   \* main's addresses list (batch mode)
    idx,         \* number of addresses batch_analyze has processed
    results,     \* batch_analyze's results list / main's results
    rpc,         \* what the node answered to the latest fetch_bytecode call
    requested,   \* the address sent with the latest eth.get_code request
    failed,      \* per address batch_analyze processed: did its fetch_bytecode raise
    last,        \* the latest dictionary returned by analyze_contract
    summary,     \* the numbers printed by the batch summary
    report,      \* what print_analysis printed (single contract mode)
    output_file, \* content of eip1153_scan_results.json
    exc,         \* the exception that ended the process, if any
    exit_code    \* sys.exit status, -1 while none

vars == <<pc, argv, input_file, addresses, idx, results, rpc, requested, failed,
          last, summary, report, output_file, exc, exit_code>>

(***************************************************************************)
(* Bounds of the model.                                                    *)
(***************************************************************************)
\* longest bytecode a node returns in single contract mode
MaxCodeLen == 3
\* longest bytecode a node returns in batch mode
MaxBatchCodeLen == 1
\* most lines of a batch input file
MaxLines == 2

\* The byte values bytecodes are built from: TLOAD 0x5c, TSTORE 0x5d,
\* PUSH1 0x60, PUSH2 0x61, and 0xa5, 0xd0 (whose hex digits "a5d0" hold "5d"
\* across the byte boundary).
ByteSet == {92, 93, 96, 97, 165, 208}

RECURSIVE SeqsUpTo(_, _)
SeqsUpTo(S, n) ==
    IF n = 0 THEN {<<>>}
    ELSE LET shorter == SeqsUpTo(S, n - 1)
         IN  shorter \cup {Append(s, x) : s \in {t \in shorter : Len(t) = n - 1}, x \in S}

None == <<"N", "o", "n", "e">>

(***************************************************************************)
(* Text helpers: Python str operations on character sequences.             *)
(***************************************************************************)
HexDigits == <<"0", "1", "2", "3", "4", "5", "6", "7",
               "8", "9", "a", "b", "c", "d", "e", "f">>

\* bytes.hex(): two lowercase hex digits per byte, high nibble first
BytesHex(bytes) ==
    [k \in 1..(2 * Len(bytes)) |->
        LET b == bytes[(k + 1) \div 2]
        IN  IF k % 2 = 1 THEN HexDigits[(b \div 16) + 1] ELSE HexDigits[(b % 16) + 1]]

\* str.startswith(prefix)
StartsWith(s, prefix) ==
    /\ Len(s) >= Len(prefix)
    /\ SubSeq(s, 1, Len(prefix)) = prefix

Whitespace == {" ", "\n", "\t", "\r"}

RECURSIVE LStrip(_)
LStrip(s) ==
    IF s # <<>> /\ Head(s) \in Whitespace THEN LStrip(Tail(s)) ELSE s

RECURSIVE RStrip(_)
RStrip(s) ==
    IF s # <<>> /\ s[Len(s)] \in Whitespace THEN RStrip(SubSeq(s, 1, Len(s) - 1)) ELSE s

\* str.strip()
Strip(s) == RStrip(LStrip(s))

\* str.count(sub) for a non-empty sub: the start positions (1-based) of the
\* non-overlapping occurrences, found left to right from position i
RECURSIVE FindAll(_, _, _)
FindAll(s, sub, i) ==
    IF i + Len(sub) - 1 > Len(s) THEN <<>>
    ELSE IF SubSeq(s, i, i + Len(sub) - 1) = sub
         THEN <<i>> \o FindAll(s, sub, i + Len(sub))
         ELSE FindAll(s, sub, i + 1)

\* a membership test where the count was meant
StrCountAny(s, sub) == IF FindAll(s, sub, 1) # <<>> THEN 1 ELSE 0

StrCount(s, sub) == Len(FindAll(s, sub, 1))

\* dict.get(key, default)
DictGet(d, key, default) == IF key \in DOMAIN d THEN d[key] ELSE default

(***************************************************************************)
(* class EIP1153Scanner                                                    *)
(***************************************************************************)
TSTORE_OPCODE == <<"5", "d">>
TLOAD_OPCODE == <<"5", "c">>

HexPrefix == <<"0", "x">>

\* __init__(rpc_url = None) in an environment env:
\* [RPC_API_KEY, ALCHEMY_API_KEY: "" when unset, connected: BOOLEAN]
ScannerInit(env) ==
    LET rpc_key == IF env.RPC_API_KEY # "" THEN env.RPC_API_KEY ELSE env.ALCHEMY_API_KEY
    IN  IF rpc_key = ""
        THEN [raised |-> TRUE, type |-> "ValueError", at |-> "__init__"]
        ELSE IF ~env.connected
             THEN [raised |-> TRUE, type |-> "ConnectionError", at |-> "__init__"]
             ELSE [raised |-> FALSE]

\* the address fetch_bytecode hands to Web3.to_checksum_address
normalize_address(address) ==
    IF ~StartsWith(address, HexPrefix) THEN HexPrefix \o address ELSE address

\* fetch_bytecode(address) when the node behaves as answer:
\*   [kind |-> "invalid_address"]   to_checksum_address raises
\*   [kind |-> "rpc_error"]         eth.get_code raises
\*   [kind |-> "code", code, prefixed]   get_code returns the bytes code, and
\*       HexBytes.hex() writes them with (hexbytes < 1.0) or without
\*       (hexbytes >= 1.0) a leading 0x
fetch_bytecode(address, answer) ==
    IF answer.kind = "invalid_address"
    THEN [raised |-> TRUE, type |-> "ValueError", msg |-> "invalid address"]
    ELSE IF answer.kind = "rpc_error"
         THEN [raised |-> TRUE, type |-> "ConnectionError", msg |-> "connection failed"]
         ELSE [raised |-> FALSE,
               value |-> IF answer.prefixed
                         THEN HexPrefix \o BytesHex(answer.code)
                         ELSE BytesHex(answer.code)]

\* scan_for_opcodes(bytecode)
strip_prefix(bytecode) ==
    IF StartsWith(bytecode, HexPrefix) THEN SubSeq(bytecode, 3, Len(bytecode)) ELSE bytecode

scan_for_opcodes(bytecode) ==
    LET stripped == strip_prefix(bytecode)
        tstore_count == StrCount(stripped, TSTORE_OPCODE)
        tload_count == StrCount(stripped, TLOAD_OPCODE)
    IN  [tstore |-> tstore_count,
         tload |-> tload_count,
         total_eip1153 |-> tstore_count + tload_count]

\* the result dictionary with only TSTORE deciding uses_eip1153
build_result_tstore_only(address, bytecode, opcode_counts) ==
    [address |-> address,
     bytecode_size |-> Len(bytecode) \div 2,
     tstore_count |-> opcode_counts.tstore,
     tload_count |-> opcode_counts.tload,
     uses_eip1153 |-> opcode_counts.tstore > 0,
     success |-> TRUE]

\* analyze_contract, lines 111-119: the result dictionary
build_result(address, bytecode, opcode_counts) ==
    [address |-> address,
     bytecode_size |-> Len(bytecode) \div 2,
     tstore_count |-> opcode_counts.tstore,
     tload_count |-> opcode_counts.tload,
     uses_eip1153 |-> opcode_counts.total_eip1153 > 0,
     success |-> TRUE]

\* analyze_contract with an except clause that catches ValueError only
analyze_contract_narrow(address, answer) ==
    LET fetched == fetch_bytecode(address, answer)
    IN  IF fetched.raised
        THEN IF fetched.type = "ValueError"
             THEN [raised |-> FALSE,
                   value |-> [address |-> address, error |-> fetched.msg, success |-> FALSE]]
             ELSE [raised |-> TRUE, type |-> fetched.type, at |-> "analyze_contract"]
        ELSE [raised |-> FALSE,
              value |-> build_result(address, fetched.value, scan_for_opcodes(fetched.value))]

\* analyze_contract(address): every Exception of fetch_bytecode is caught
analyze_contract(address, answer) ==
    LET fetched == fetch_bytecode(address, answer)
    IN  IF fetched.raised
        THEN [raised |-> FALSE,
              value |-> [address |-> address, error |-> fetched.msg, success |-> FALSE]]
        ELSE [raised |-> FALSE,
              value |-> build_result(address, fetched.value, scan_for_opcodes(fetched.value))]

\* print_analysis(result): the lines it prints
print_analysis(result) ==
    IF ~result.success
    THEN [kind |-> "error", address |-> result.address,
          error |-> DictGet(result, "error", "Unknown error")]
    ELSE [kind |-> "analysis", address |-> result.address,
          bytecode_size |-> result.bytecode_size,
          tstore |-> result.tstore_count, tload |-> result.tload_count,
          uses |-> IF result.uses_eip1153 THEN "YES" ELSE "NO",
          verdict |-> IF result.uses_eip1153 THEN "uses transient storage"
                      ELSE "does NOT use transient storage"]

\* a batch loop that puts each new result first
batch_prepend(rs, result) == <<result>> \o rs

\* batch_analyze, line 164: results.append(result)
batch_append(rs, result) == Append(rs, result)

(***************************************************************************)
(* main                                                                    *)
(***************************************************************************)
BATCH_FLAG == <<"-", "-", "b", "a", "t", "c", "h">>
PROG == <<"s">>
FILE_NAME == <<"f">>
AddrA == <<"0", "x", "a", "a">>
AddrB == <<"b", "b">>

\* line 204: [line.strip() for line in f if line.strip()]
RECURSIVE read_addresses(_)
read_addresses(lines) ==
    IF lines = <<>> THEN <<>>
    ELSE IF Strip(Head(lines)) # <<>>
         THEN <<Strip(Head(lines))>> \o read_addresses(Tail(lines))
         ELSE read_addresses(Tail(lines))

\* a summary that counts every successful result as using the feature
RECURSIVE count_successful(_)
count_successful(rs) ==
    IF rs = <<>> THEN 0
    ELSE (IF DictGet(Head(rs), "success", FALSE) THEN 1 ELSE 0) + count_successful(Tail(rs))

\* line 215: sum(1 for r in results if r.get('uses_eip1153', False))
RECURSIVE count_with_eip1153(_)
count_with_eip1153(rs) ==
    IF rs = <<>> THEN 0
    ELSE (IF DictGet(Head(rs), "uses_eip1153", FALSE) THEN 1 ELSE 0)
         + count_with_eip1153(Tail(rs))

\* lines 214-220: the numbers of the summary in print order; the adoption
\* rate divides by total and is printed with one decimal (kept in tenths of
\* a percent, rounded to nearest)
batch_summary(rs) ==
    LET total == Len(rs)
        with_eip1153 == count_with_eip1153(rs)
        head == [total |-> total, using |-> with_eip1153,
                 not_using |-> total - with_eip1153]
    IN  IF total = 0
        THEN [raised |-> TRUE, type |-> "ZeroDivisionError", at |-> "summary",
              printed |-> head]
        ELSE [raised |-> FALSE,
              printed |-> [total |-> total, using |-> with_eip1153,
                           not_using |-> total - with_eip1153,
                           rate_tenths |-> (2000 * with_eip1153 + total) \div (2 * total)]]

(***************************************************************************)
(* The environment: command lines, node answers, files.                    *)
(***************************************************************************)
Argvs == {<<PROG>>, <<PROG, BATCH_FLAG>>, <<PROG, BATCH_FLAG, FILE_NAME>>,
          <<PROG, AddrA>>, <<PROG, AddrB>>}

Envs == [RPC_API_KEY : {"", "k"}, ALCHEMY_API_KEY : {"", "k"}, connected : BOOLEAN]

Answers(maxlen) ==
    {[kind |-> "invalid_address"], [kind |-> "rpc_error"]}
    \cup [kind : {"code"}, code : SeqsUpTo(ByteSet, maxlen), prefixed : BOOLEAN]

FileLineSet == {<<" ", "\n">>, AddrA \o <<"\n">>, AddrB \o <<"\n">>}

NoAnswer == [kind |-> "none"]
NoDict == [none |-> TRUE]
NoExc == [raised |-> FALSE]
NoFile == [written |-> FALSE]

Init ==
    /\ pc = "start"
    /\ argv \in Argvs
    /\ input_file = <<>>
    /\ addresses = <<>>
    /\ idx = 0
    /\ results = <<>>
    /\ rpc = NoAnswer
    /\ requested = None
    /\ failed = <<>>
    /\ last = NoDict
    /\ summary = NoDict
    /\ report = NoDict
    /\ output_file = NoFile
    /\ exc = NoExc
    /\ exit_code = -1

\* lines 187-193: no argument, usage and exit status 1
Main_Usage ==
    /\ pc = "start"
    /\ Len(argv) < 2
    /\ pc' = "exit"
    /\ exit_code' = 1
    /\ UNCHANGED <<argv, input_file, addresses, idx, results, rpc, requested, failed,
                   last, summary, report, output_file, exc>>

\* line 195: scanner = EIP1153Scanner()
Main_CreateScanner ==
    /\ pc = "start"
    /\ Len(argv) >= 2
    /\ \E env \in Envs :
         LET made == ScannerInit(env)
         IN  IF made.raised
             THEN pc' = "raised" /\ exc' = made
             ELSE pc' = "dispatch" /\ exc' = exc
    /\ UNCHANGED <<argv, input_file, addresses, idx, results, rpc, requested, failed,
                   last, summary, report, output_file, exit_code>>

\* lines 197-200: --batch without a file
Main_BatchNoFile ==
    /\ pc = "dispatch"
    /\ argv[2] = BATCH_FLAG
    /\ Len(argv) < 3
    /\ pc' = "exit"
    /\ exit_code' = 1
    /\ UNCHANGED <<argv, input_file, addresses, idx, results, rpc, requested, failed,
                   last, summary, report, output_file, exc>>

\* lines 202-204: the input file cannot be opened
Main_ReadFails ==
    /\ pc = "dispatch"
    /\ argv[2] = BATCH_FLAG
    /\ Len(argv) >= 3
    /\ pc' = "raised"
    /\ exc' = [raised |-> TRUE, type |-> "OSError", at |-> "open_input"]
    /\ UNCHANGED <<argv, input_file, addresses, idx, results, rpc, requested, failed,
                   last, summary, report, output_file, exit_code>>

\* lines 202-207: read the addresses and enter batch_analyze (line 157)
Main_ReadAddresses ==
    /\ pc = "dispatch"
    /\ argv[2] = BATCH_FLAG
    /\ Len(argv) >= 3
    /\ \E lines \in SeqsUpTo(FileLineSet, MaxLines) :
         /\ input_file' = lines
         /\ addresses' = read_addresses(lines)
    /\ results' = <<>>
    /\ idx' = 0
    /\ pc' = "batch"
    /\ UNCHANGED <<argv, rpc, requested, failed, last, summary, report, output_file,
                   exc, exit_code>>

\* what a fetch leaves at the node: the request, unless the address was refused
Request(address, answer) ==
    IF answer.kind = "invalid_address" THEN requested ELSE normalize_address(address)

\* lines 161-167: one iteration of batch_analyze's loop
BatchAnalyze_Step ==
    /\ pc = "batch"
    /\ idx < Len(addresses)
    /\ \E answer \in Answers(MaxBatchCodeLen) :
         LET address == addresses[idx + 1]
             out == analyze_contract(address, answer)
         IN  /\ rpc' = answer
             /\ requested' = Request(address, answer)
             /\ failed' = Append(failed, fetch_bytecode(address, answer).raised)
             /\ IF out.raised
                THEN /\ pc' = "raised"
                     /\ exc' = out
                     /\ UNCHANGED <<results, last, idx>>
                ELSE /\ results' = batch_append(results, out.value)
                     /\ last' = out.value
                     /\ idx' = idx + 1
                     /\ UNCHANGED <<pc, exc>>
    /\ UNCHANGED <<argv, input_file, addresses, summary, report, output_file, exit_code>>

\* line 169: return results
BatchAnalyze_Return ==
    /\ pc = "batch"
    /\ idx = Len(addresses)
    /\ pc' = "summary"
    /\ UNCHANGED <<argv, input_file, addresses, idx, results, rpc, requested, failed,
                   last, summary, report, output_file, exc, exit_code>>

\* lines 209-221: print the summary
Main_Summary ==
    /\ pc = "summary"
    /\ LET s == batch_summary(results)
       IN  /\ summary' = s.printed
           /\ IF s.raised
              THEN pc' = "raised" /\ exc' = [raised |-> TRUE, type |-> s.type, at |-> s.at]
              ELSE pc' = "export" /\ exc' = exc
    /\ UNCHANGED <<argv, input_file, addresses, idx, results, rpc, requested, failed,
                   last, report, output_file, exit_code>>

\* lines 223-225 and export_results: write the results as JSON
Main_Export ==
    /\ pc = "export"
    /\ \E writable \in BOOLEAN :
         IF writable
         THEN /\ pc' = "done"
              /\ output_file' = [written |-> TRUE, content |-> results]
              /\ exc' = exc
         ELSE /\ pc' = "raised"
              /\ output_file' = output_file
              /\ exc' = [raised |-> TRUE, type |-> "OSError", at |-> "export_results"]
    /\ UNCHANGED <<argv, input_file, addresses, idx, results, rpc, requested, failed,
                   last, summary, report, exit_code>>

\* lines 227-231: single contract mode
Main_Single ==
    /\ pc = "dispatch"
    /\ argv[2] # BATCH_FLAG
    /\ \E answer \in Answers(MaxCodeLen) :
         LET address == argv[2]
             out == analyze_contract(address, answer)
         IN  /\ rpc' = answer
             /\ requested' = Request(address, answer)
             /\ IF out.raised
                THEN /\ pc' = "raised"
                     /\ exc' = out
                     /\ UNCHANGED <<last, report>>
                ELSE /\ last' = out.value
                     /\ report' = print_analysis(out.value)
                     /\ pc' = "done"
                     /\ exc' = exc
    /\ UNCHANGED <<argv, input_file, addresses, idx, results, failed, summary,
                   output_file, exit_code>>

Next ==
    \/ Main_Usage
    \/ Main_CreateScanner
    \/ Main_BatchNoFile
    \/ Main_ReadFails
    \/ Main_ReadAddresses
    \/ BatchAnalyze_Step
    \/ BatchAnalyze_Return
    \/ Main_Summary
    \/ Main_Export
    \/ Main_Single

Spec == Init /\ [][Next]_vars

(***************************************************************************)
(* Vocabulary of the properties: EVM instruction boundaries.               *)
(***************************************************************************)
\* immediate bytes of opcode b: PUSH1 (0x60) .. PUSH32 (0x7f) carry 1 .. 32
ImmediateLength(b) == IF b >= 96 /\ b <= 127 THEN b - 95 ELSE 0

\* the offsets (1-based) of the bytes of code that start an instruction,
\* decoding linearly from cursor
RECURSIVE InstrStarts(_, _)
InstrStarts(code, cursor) ==
    IF cursor > Len(code) THEN {}
    ELSE {cursor} \cup InstrStarts(code, cursor + 1 + ImmediateLength(code[cursor]))

\* the offsets of the bytes that are immediate data of a push
PushData(code) == (1..Len(code)) \ InstrStarts(code, 1)

BytesEqual(code, b) == {k \in 1..Len(code) : code[k] = b}

\* the node returned code for the latest fetch, and the analysis came back
Scanned == rpc.kind = "code" /\ last # NoDict

\* the address of the latest analyze_contract call
CurrentAddress == IF argv[2] = BATCH_FLAG THEN addresses[idx] ELSE argv[2]

\* the hex text scan_for_opcodes counts in, for the latest fetch
ScannedText == strip_prefix(fetch_bytecode(CurrentAddress, rpc).value)

\* where the count of pattern found its occurrences in that text
Hits(pattern) ==
    LET found == FindAll(ScannedText, pattern, 1)
    IN  {found[j] : j \in 1..Len(found)}

HitCount(pattern, position) ==
    LET found == FindAll(ScannedText, pattern, 1)
    IN  Cardinality({j \in 1..Len(found) : found[j] = position})

(***************************************************************************)
(* C1: a byte 0x5c or 0x5d inside the immediate data of a push (PUSH1 ..   *)
(* PUSH32, also a truncated trailing push) is not counted; bytecode 605d   *)
(* yields tstore_count = 0 and uses_eip1153 = false.                       *)
(***************************************************************************)
C1_PushDataNotCounted ==
    Scanned =>
        /\ \A k \in PushData(rpc.code) :
             /\ rpc.code[k] = 93 => (2 * k - 1) \notin Hits(TSTORE_OPCODE)
             /\ rpc.code[k] = 92 => (2 * k - 1) \notin Hits(TLOAD_OPCODE)
        /\ rpc.code = <<96, 93>> => (last.tstore_count = 0 /\ ~last.uses_eip1153)

(***************************************************************************)
(* C2: every byte 0x5d (0x5c) at an instruction boundary is counted        *)
(* exactly once as tstore (tload); a bytecode made of target opcodes only  *)
(* has exactly its 0x5d bytes as tstore_count and its 0x5c bytes as        *)
(* tload_count (5d gives 1 and 0, 5d5d5d gives 3 and 0), and               *)
(* uses_eip1153 is true when there is one.                                 *)
(***************************************************************************)
C2_BoundaryOpcodesCounted ==
    Scanned =>
        LET code == rpc.code
            starts == InstrStarts(code, 1)
        IN  /\ \A k \in starts :
                 /\ code[k] = 93 => HitCount(TSTORE_OPCODE, 2 * k - 1) = 1
                 /\ code[k] = 92 => HitCount(TLOAD_OPCODE, 2 * k - 1) = 1
            /\ last.tstore_count >= Cardinality(starts \cap BytesEqual(code, 93))
            /\ last.tload_count >= Cardinality(starts \cap BytesEqual(code, 92))
            /\ (\A k \in 1..Len(code) : code[k] \in {92, 93}) =>
                 /\ last.tstore_count = Cardinality(BytesEqual(code, 93))
                 /\ last.tload_count = Cardinality(BytesEqual(code, 92))
                 /\ last.uses_eip1153 = (code # <<>>)

C2_Witness ==
    /\ Scanned
    /\ rpc.code = <<93, 93, 93>>
    /\ last.tstore_count = 3
    /\ last.tload_count = 0
    /\ last.uses_eip1153

(***************************************************************************)
(* C3: batch_analyze handles the addresses in input order and a failed     *)
(* fetch never aborts the rest: result i carries address i, has            *)
(* success = false exactly when the fetch for address i failed, and the    *)
(* returned list has one result per address.                               *)
(***************************************************************************)
\* main is in batch mode and has read the address file
InBatch ==
    /\ Len(argv) >= 3
    /\ pc \in {"batch", "summary", "export", "done", "raised"}
    /\ (exc.raised => exc.at \notin {"__init__", "open_input"})

C3_BatchOrderAndTolerance ==
    InBatch =>
        /\ Len(results) = idx
        /\ Len(failed) = idx
        /\ idx <= Len(addresses)
        /\ \A k \in 1..idx :
             /\ results[k].address = addresses[k]
             /\ results[k].success = ~failed[k]
        /\ (pc # "batch") => Len(results) = Len(addresses)
        /\ exc.raised => exc.at # "analyze_contract"

C3_Witness ==
    /\ InBatch
    /\ pc = "summary"
    /\ addresses = <<AddrA, AddrB>>
    /\ failed = <<TRUE, FALSE>>
    /\ ~results[1].success
    /\ results[2].success

(***************************************************************************)
(* C4: when the bytecode retrieval fails, analyze_contract raises nothing: *)
(* it returns success = false, the input address and the captured error    *)
(* message, and no opcode counts.                                          *)
(***************************************************************************)
FetchFailed == rpc.kind \in {"invalid_address", "rpc_error"}

C4_FetchFailureCaptured ==
    FetchFailed =>
        /\ exc.raised => exc.at # "analyze_contract"
        /\ last # NoDict
        /\ DOMAIN last = {"address", "error", "success"}
        /\ last.success = FALSE
        /\ last.address = CurrentAddress
        /\ last.error = fetch_bytecode(CurrentAddress, rpc).msg

C4_Witness ==
    /\ rpc.kind = "rpc_error"
    /\ pc = "done"
    /\ last = [address |-> AddrB, error |-> "connection failed", success |-> FALSE]
    /\ report.kind = "error"

(***************************************************************************)
(* C5: bytecode_size of a successful analysis is the number of bytes of    *)
(* the deployed bytecode, with or without a 0x prefix on the hex string.   *)
(***************************************************************************)
C5_SizeIsByteLength ==
    Scanned => last.bytecode_size = Len(rpc.code)

(***************************************************************************)
(* C6: empty fetched bytecode yields success = true, bytecode_size = 0,    *)
(* tstore_count = 0, tload_count = 0 and uses_eip1153 = false.             *)
(***************************************************************************)
C6_EmptyBytecode ==
    (Scanned /\ rpc.code = <<>>) =>
        /\ last.success
        /\ last.bytecode_size = 0
        /\ last.tstore_count = 0
        /\ last.tload_count = 0
        /\ ~last.uses_eip1153

(***************************************************************************)
(* C7: the batch summary reports total = number of all results, using =    *)
(* number of results with uses_eip1153 true, not using = total - using,    *)
(* and never counts a failed result as using the feature.                  *)
(***************************************************************************)
UsingResults == {k \in 1..Len(results) : results[k].success /\ results[k].uses_eip1153}

C7_SummaryCounts ==
    summary # NoDict =>
        /\ summary.total = Len(results)
        /\ summary.using = Cardinality(UsingResults)
        /\ summary.not_using = summary.total - summary.using
        /\ summary.using <= Cardinality({k \in 1..Len(results) : results[k].success})

C7_Witness ==
    /\ summary # NoDict
    /\ summary.total = 2
    /\ summary.using = 1
    /\ summary.not_using = 1
    /\ \E k \in 1..Len(results) : ~results[k].success

(***************************************************************************)
(* C8: in a successful result uses_eip1153 is true iff tstore_count > 0 or *)
(* tload_count > 0; both counts are present and not negative.              *)
(***************************************************************************)
ResultOk(r) ==
    r.success =>
        /\ {"tstore_count", "tload_count", "uses_eip1153"} \subseteq DOMAIN r
        /\ r.tstore_count >= 0
        /\ r.tload_count >= 0
        /\ r.uses_eip1153 = (r.tstore_count > 0 \/ r.tload_count > 0)

C8_UsesIffCounted ==
    /\ last # NoDict => ResultOk(last)
    /\ \A k \in 1..Len(results) : ResultOk(results[k])

C8_Witness ==
    /\ Scanned
    /\ last.success
    /\ last.tstore_count = 0
    /\ last.tload_count > 0
    /\ last.uses_eip1153

(***************************************************************************)
(* C9: in batch mode, whatever addresses the file holds (none included),   *)
(* main prints the summary and calls export_results with all results,      *)
(* raising nothing in between.                                             *)
(***************************************************************************)
C9_BatchReachesExport ==
    /\ (InBatch /\ pc = "raised") =>
         (exc.at = "export_results" /\ "rate_tenths" \in DOMAIN summary)
    /\ (InBatch /\ pc = "done") =>
         output_file = [written |-> TRUE, content |-> results]

(***************************************************************************)
(* C10: tstore_count (tload_count) never exceeds the number of bytes of    *)
(* the bytecode equal to 0x5d (0x5c).                                      *)
(***************************************************************************)
C10_CountsAreByteAligned ==
    Scanned =>
        /\ last.tstore_count <= Cardinality(BytesEqual(rpc.code, 93))
        /\ last.tload_count <= Cardinality(BytesEqual(rpc.code, 92))

====
